---- MODULE Spec2Model ----
(***************************************************************************)
(* A model of tspy, a typed client for the Tailscale API v2.               *)
(*                                                                         *)
(* The client (src/tspy/client.py) is a thin layer over one function,      *)
(* TailscaleClient._request, which issues one HTTP request on a            *)
(* requests.Session and translates the outcome; every public method        *)
(* builds a path, a query and a body, calls _request, and decodes the      *)
(* result, for some methods into a pydantic entity (src/tspy/models.py).   *)
(*                                                                         *)
(* A Python value is a record tagged by its type in field t; a JSON body   *)
(* is represented by the Python value it parses to.  The remote server is  *)
(* the environment: each method's action draws the server's response from  *)
(* a small set and runs the whole method on it.                            *)
(***************************************************************************)
EXTENDS Integers, Sequences, FiniteSets, TLC

VARIABLES api_key, tailnet, base_url, session, calls, last

vars == <<api_key, tailnet, base_url, session, calls, last>>

\* The number of operations a behaviour performs on the library.
MaxCalls == 3
\* The longest collection a response carries.
MaxItems == 2

(***************************************************************************)
(* Python values.                                                          *)
(***************************************************************************)
PyNone == [t |-> "None"]
PyStr(s) == [t |-> "str", s |-> s]
PyBool(b) == [t |-> "bool", b |-> b]
PyInt(n) == [t |-> "int", n |-> n]
PyList(xs) == [t |-> "list", items |-> xs]
PyDict(f) == [t |-> "dict", fields |-> f]
PyDatetime(s) == [t |-> "datetime", iso |-> s]
\* An instance of a pydantic model: the model's name and its attributes.
PyEntity(model, attrs) == [t |-> "entity", model |-> model, attrs |-> attrs]

EmptyMap == [k \in {} |-> PyNone]
EmptyDict == PyDict(EmptyMap)
EmptyList == PyList(<<>>)

\* Python's truth value of v, as `if v:` tests it.
Truthy(v) ==
    CASE v.t = "None" -> FALSE
      [] v.t = "str" -> v.s # ""
      [] v.t = "bool" -> v.b
      [] v.t = "int" -> v.n # 0
      [] v.t = "list" -> Len(v.items) > 0
      [] v.t = "dict" -> DOMAIN v.fields # {}
      [] OTHER -> TRUE

\* An exception in flight, as the value of the expression that raised it.
Exc(name) == [t |-> "exception", exc |-> name]
IsExc(v) == v.t = "exception"

(***************************************************************************)
(* The outcome of a call: a returned value or a raised exception.          *)
(***************************************************************************)
Return(v) == [kind |-> "return", value |-> v]
\* An exception other than TspyAPIError escaping the method.
Raise(name) == [kind |-> "raise", exc |-> name]

\* TspyAPIError(message, status_code=None, response_data=None)
TspyAPIError(status_code, response_data) ==
    [kind |-> "raise", exc |-> "TspyAPIError",
     status_code |-> status_code, response_data |-> response_data]

(***************************************************************************)
(* HTTP responses.  fail names the requests exception session.request      *)
(* raised instead of returning a response ("none": a response arrived);    *)
(* body is the response's content: empty, text that is not JSON, or JSON   *)
(* text, carried as the value it parses to.                                *)
(***************************************************************************)
BodyEmpty == [kind |-> "empty"]
BodyText == [kind |-> "text"]
BodyJson(v) == [kind |-> "json", value |-> v]

Response(status, body) == [fail |-> "none", status |-> status, body |-> body]
TransportFailure(exc) == [fail |-> exc, status |-> 0, body |-> BodyEmpty]
\* The step sent no request, so there is no response to it.
NoResponse == [fail |-> "no request", status |-> 0, body |-> BodyEmpty]

\* TailscaleClient.__init__: base_url.rstrip("/") on a URL given as its
\* root followed by the "/" characters that trail it.
RECURSIVE rstrip(_)
rstrip(url) ==
    IF Len(url) > 0 /\ url[Len(url)] = "/"
    THEN rstrip(SubSeq(url, 1, Len(url) - 1))
    ELSE url

RECURSIVE join(_)
join(url) == IF url = <<>> THEN "" ELSE Head(url) \o join(Tail(url))

DefaultBaseUrl == <<"https://api.tailscale.com/api/v2">>

\* A session that sends the key as a bearer token instead.
NewSession_bearer(key) ==
    [auth |-> [username |-> "", password |-> ""],
     headers |-> ("Accept" :> "application/json")
                 @@ ("Content-Type" :> "application/json")
                 @@ ("Authorization" :> "Bearer " \o key)]

\* requests.Session() after __init__ set its auth and default headers.
NewSession(key) ==
    [auth |-> [username |-> key, password |-> ""],
     headers |-> ("Accept" :> "application/json")
                 @@ ("Content-Type" :> "application/json")]

\* No call is in progress and no outcome is held by the caller.
Idle == [op |-> "idle", args |-> [k \in {} |-> PyNone], sent |-> <<>>,
         response |-> NoResponse, raw |-> Return(PyNone),
         outcome |-> Return(PyNone)]

Init ==
    /\ api_key = "test-key"
    /\ tailnet \in {"-", "test.com"}
    /\ \E url \in {DefaultBaseUrl, DefaultBaseUrl \o <<"/">>} :
          base_url = join(rstrip(url))
    /\ session = NewSession(api_key)
    /\ calls = 0
    /\ last = Idle

(***************************************************************************)
(* TailscaleClient._request                                                *)
(***************************************************************************)
\* A status check that lets 400 itself through.
raise_for_status_above_400(resp) == 400 < resp.status /\ resp.status < 600

\* response.raise_for_status(): requests raises HTTPError for 4xx and 5xx.
raise_for_status(resp) == 400 <= resp.status /\ resp.status < 600

\* response.json(): the parsed body, or requests' JSONDecodeError (a
\* RequestException since requests 2.27) when the body is not JSON text.
response_json(resp) ==
    IF resp.body.kind = "json" THEN resp.body.value ELSE Exc("JSONDecodeError")

\* An HTTPError branch that drops the parsed error body.
on_HTTPError_without_data(resp) == TspyAPIError(PyInt(resp.status), PyNone)

\* An HTTPError branch whose parse of the error body is not guarded.
on_HTTPError_unguarded(resp) ==
    IF resp.body.kind = "json"
    THEN TspyAPIError(PyInt(resp.status), resp.body.value)
    ELSE Raise("JSONDecodeError")

\* The except HTTPError branch, with its best-effort parse of the body.
on_HTTPError(resp) ==
    LET parsed == response_json(resp)
        error_data == IF IsExc(parsed) THEN PyNone ELSE parsed
    IN  TspyAPIError(PyInt(resp.status), error_data)

\* A RequestException branch that lets the requests exception through.
on_RequestException_reraised(exc) == Raise(exc)

\* The except RequestException branch.
on_RequestException(exc) == TspyAPIError(PyNone, PyNone)

\* A success path that parses the body whether or not it is empty.
on_success_always_parsing(resp) ==
    IF resp.body.kind = "json" THEN Return(resp.body.value)
    ELSE TspyAPIError(PyNone, PyNone)

\* A success path whose JSON decoding error is not a RequestException.
on_success_raw_decode_error(resp) ==
    IF resp.body.kind = "empty" THEN Return(PyNone)
    ELSE IF resp.body.kind = "json" THEN Return(resp.body.value)
    ELSE Raise("JSONDecodeError")

\* The try block after raise_for_status passed.
on_success(resp) ==
    IF resp.body.kind # "empty"
    THEN LET parsed == response_json(resp)
         IN  IF IsExc(parsed) THEN on_RequestException(parsed.exc) ELSE Return(parsed)
    ELSE Return(PyNone)

\* kwargs with kwargs['params'] = params when params is truthy.
with_params(kwargs, params) ==
    IF Truthy(params)
    THEN [k \in DOMAIN kwargs \cup {"params"} |->
            IF k = "params" THEN params ELSE kwargs[k]]
    ELSE kwargs

\* What _request returns or raises on the server's response resp.
request_outcome(resp) ==
    IF resp.fail # "none" THEN on_RequestException(resp.fail)
    ELSE IF raise_for_status(resp) THEN on_HTTPError(resp)
    ELSE on_success(resp)

\* self.session.request(method, url, **kwargs): the request that goes out
\* carries the call's arguments, the session's auth (no call passes its
\* own) and the session's default headers overlaid with the call's.
session_request(method, url, kwargs) ==
    LET own == IF "headers" \in DOMAIN kwargs /\ kwargs["headers"].t = "dict"
               THEN kwargs["headers"].fields ELSE EmptyMap
    IN  [method |-> method, url |-> url, kwargs |-> kwargs,
         auth |-> session.auth,
         headers |-> [h \in DOMAIN session.headers \cup DOMAIN own |->
                         IF h \in DOMAIN own THEN own[h].s
                         ELSE session.headers[h]]]

\* A _request that issues the request a second time when the first try
\* raised.
_request_retrying(method, endpoint, params, kwargs, resp) ==
    LET req == session_request(method, base_url \o endpoint,
                               with_params(kwargs, params))
    IN  [sent |-> IF request_outcome(resp).kind = "raise"
                  THEN <<req, req>> ELSE <<req>>,
         response |-> resp,
         raw |-> request_outcome(resp),
         outcome |-> request_outcome(resp)]

\* The request _request hands to session.request, the response to it, and
\* what _request returns or raises (raw); outcome is the calling method's
\* own outcome, which starts as that of _request.
_request(method, endpoint, params, kwargs, resp) ==
    LET req == session_request(method, base_url \o endpoint,
                               with_params(kwargs, params))
    IN  [sent |-> <<req>>,
         response |-> resp,
         raw |-> request_outcome(resp),
         outcome |-> request_outcome(resp)]

(***************************************************************************)
(* The pydantic models of src/tspy/models.py.  A field is declared by its  *)
(* typed name, the one name it is read from on the wire (its alias, or     *)
(* the typed name when it has none), its type, whether it is required,     *)
(* its default, and the 'before' validator that applies to it.  A field    *)
(* accepts None exactly when its type is Optional[...], which in these     *)
(* models is exactly when it is not required.                              *)
(***************************************************************************)
Field(name, wire, kind, required, dflt, before) ==
    [name |-> name, wire |-> wire, kind |-> kind, required |-> required,
     dflt |-> dflt, before |-> before]

Req(name, wire, kind) == Field(name, wire, kind, TRUE, PyNone, "none")
Opt(name, wire, kind) == Field(name, wire, kind, FALSE, PyNone, "none")
\* Optional[...] = Field(default_factory=list)
OptList(name, wire) == Field(name, wire, "list", FALSE, EmptyList, "none")

Device ==
    { Req("id", "id", "str"),
      Req("addresses", "addresses", "list"),
      Req("authorized", "authorized", "bool"),
      Opt("blocked_ports", "blockedPorts", "list"),
      Opt("blocks_incoming_connections", "blocksIncomingConnections", "bool"),
      Opt("client_connectivity", "clientConnectivity", "dict"),
      Opt("client_version", "clientVersion", "str"),
      Field("created", "created", "datetime", FALSE, PyNone, "Device"),
      Field("expires", "expires", "datetime", FALSE, PyNone, "Device"),
      Req("hostname", "hostname", "str"),
      Opt("is_external", "isExternal", "bool"),
      Opt("key_expiry_disabled", "keyExpiryDisabled", "bool"),
      Field("last_seen", "lastSeen", "datetime", FALSE, PyNone, "Device"),
      Opt("machine_key", "machineKey", "str"),
      Req("name", "name", "str"),
      Opt("node_id", "nodeId", "str"),
      Opt("node_key", "nodeKey", "str"),
      Req("os", "os", "str"),
      Opt("tags", "tags", "list"),
      Opt("tailnet_lock_error", "tailnetLockError", "str"),
      Opt("tailnet_lock_key", "tailnetLockKey", "str"),
      Opt("tailscale_ips", "tailscaleIPs", "list"),
      Opt("update_available", "updateAvailable", "bool"),
      Req("user", "user", "str") }

User ==
    { Req("id", "id", "str"),
      Req("login_name", "loginName", "str"),
      Req("display_name", "displayName", "str"),
      Opt("profile_pic_url", "profilePicUrl", "str"),
      Opt("tailnet_id", "tailnetId", "str"),
      Field("created", "created", "datetime", FALSE, PyNone, "User"),
      Opt("type", "type", "str"),
      Opt("role", "role", "str"),
      Opt("status", "status", "str"),
      Opt("device_count", "deviceCount", "int"),
      Field("last_seen", "lastSeen", "datetime", FALSE, PyNone, "User"),
      Opt("currently_connected", "currentlyConnected", "bool") }

ACL ==
    { OptList("acls", "acls"),
      Opt("groups", "groups", "dict"),
      Opt("hosts", "hosts", "dict"),
      Opt("tag_owners", "tagOwners", "dict"),
      Opt("tests", "tests", "list"),
      Opt("ssh", "ssh", "list"),
      Opt("node_attrs", "nodeAttrs", "list") }

DNSConfig ==
    { OptList("domains", "domains"),
      Req("magic_dns", "magicDNS", "bool"),
      OptList("nameservers", "nameservers"),
      Opt("override_local_dns", "overrideLocalDNS", "bool"),
      Opt("routes", "routes", "dict") }

DeviceInvite ==
    { Req("id", "id", "str"),
      Req("created", "created", "datetime"),
      Opt("email", "email", "str"),
      Req("multi_use", "multiUse", "bool"),
      Req("allow_exit_node", "allowExitNode", "bool"),
      Req("used", "used", "bool"),
      Req("device_id", "deviceId", "str"),
      Opt("expires", "expires", "datetime") }

UserInvite ==
    { Req("id", "id", "str"),
      Req("email", "email", "str"),
      Req("role", "role", "str"),
      Req("created_at", "createdAt", "datetime"),
      Req("expires_at", "expiresAt", "datetime"),
      Req("accepted", "accepted", "bool"),
      Opt("sent_at", "sentAt", "datetime") }

ApiKey ==
    { Req("id", "id", "str"),
      Opt("description", "description", "str"),
      Req("capabilities", "capabilities", "dict"),
      Req("created", "created", "datetime"),
      Req("expires", "expires", "datetime"),
      Opt("revoked", "revoked", "datetime") }

AuthKey ==
    { Req("id", "id", "str"),
      Opt("description", "description", "str"),
      Req("created", "created", "datetime"),
      Req("expires", "expires", "datetime"),
      Req("capabilities", "capabilities", "dict"),
      Opt("revoked", "revoked", "datetime") }

Webhook ==
    { Req("endpoint_id", "endpointId", "str"),
      Req("endpoint_url", "endpointUrl", "str"),
      Req("provider_type", "providerType", "str"),
      Req("subscriptions", "subscriptions", "list"),
      Req("created", "created", "datetime"),
      Opt("last_triggered", "lastTriggered", "datetime"),
      Opt("secret", "secret", "str") }

DeviceRoutes ==
    { Req("advertised_routes", "advertisedRoutes", "list"),
      Req("enabled_routes", "enabledRoutes", "list") }

DevicePostureAttributes ==
    { Req("attributes", "attributes", "dict") }

LogEntry ==
    { Req("timestamp", "timestamp", "datetime"),
      Req("type", "type", "str"),
      Req("message", "message", "str"),
      Opt("data", "data", "dict") }

ContactPreference ==
    { Opt("security", "security", "str"),
      Opt("support", "support", "str"),
      Opt("billing", "billing", "str") }

TailnetSettings ==
    { Opt("devices_approval_on", "devicesApprovalOn", "bool"),
      Opt("devices_auto_updates_on", "devicesAutoUpdatesOn", "bool"),
      Opt("devices_key_duration_days", "devicesKeyDurationDays", "int"),
      Opt("network_flow_logging_on", "networkFlowLoggingOn", "bool"),
      Opt("regional_routing_on", "regionalRoutingOn", "bool"),
      Opt("route_all_on", "routeAllOn", "bool"),
      Opt("magic_dns_enabled", "magicDNSEnabled", "bool"),
      Opt("enhanced_security_features_on", "enhancedSecurityFeaturesOn", "bool") }

PostureIntegration ==
    { Req("id", "id", "str"),
      Req("provider", "provider", "str"),
      Req("created_at", "createdAt", "datetime") }

ModelNames ==
    {"Device", "User", "ACL", "DNSConfig", "DeviceRoutes",
     "DevicePostureAttributes", "DeviceInvite", "UserInvite", "ApiKey",
     "AuthKey", "LogEntry", "ContactPreference", "Webhook", "TailnetSettings",
     "PostureIntegration"}

Fields(model) ==
    CASE model = "Device" -> Device
      [] model = "User" -> User
      [] model = "ACL" -> ACL
      [] model = "DNSConfig" -> DNSConfig
      [] model = "DeviceInvite" -> DeviceInvite
      [] model = "UserInvite" -> UserInvite
      [] model = "ApiKey" -> ApiKey
      [] model = "AuthKey" -> AuthKey
      [] model = "Webhook" -> Webhook
      [] model = "DeviceRoutes" -> DeviceRoutes
      [] model = "DevicePostureAttributes" -> DevicePostureAttributes
      [] model = "LogEntry" -> LogEntry
      [] model = "ContactPreference" -> ContactPreference
      [] model = "TailnetSettings" -> TailnetSettings
      [] model = "PostureIntegration" -> PostureIntegration

\* The strings pydantic parses as a datetime; no other string of the model is.
Timestamps == {"2024-01-01T00:00:00Z", "2024-12-31T23:59:59Z"}

\* A validator that leaves the empty string in place.
Device_empty_str_kept(v) == v

\* Device.empty_str_to_none, the 'before' validator of created, expires
\* and last_seen.
Device_empty_str_to_none(v) == IF v = PyStr("") THEN PyNone ELSE v

\* User.empty_str_to_none, the 'before' validator of created and last_seen.
User_empty_str_to_none(v) == IF v = PyStr("") THEN PyNone ELSE v

before_validator(f, v) ==
    CASE f.before = "Device" -> Device_empty_str_to_none(v)
      [] f.before = "User" -> User_empty_str_to_none(v)
      [] OTHER -> v

\* pydantic's validation of a value against a field's declared type.  The
\* responses of the model carry each type's own JSON form only (a string
\* for str and datetime, true/false for bool, a number for int, an array
\* for a list, an object for a dict), so lax-mode conversions from other
\* forms never arise; element types of lists and dicts are not inspected.
validate_type(f, v) ==
    CASE v.t = "None" -> IF f.required THEN Exc("ValidationError") ELSE PyNone
      [] f.kind = "datetime" /\ v.t = "str" ->
            IF v.s \in Timestamps THEN PyDatetime(v.s) ELSE Exc("ValidationError")
      [] f.kind = v.t -> v
      [] OTHER -> Exc("ValidationError")

\* A decoding that also reads a field from its typed name, as a model
\* with populate_by_name does.
field_value_by_name(f, data) ==
    IF f.wire \in DOMAIN data
    THEN validate_type(f, before_validator(f, data[f.wire]))
    ELSE IF f.name \in DOMAIN data
    THEN validate_type(f, before_validator(f, data[f.name]))
    ELSE IF f.required THEN Exc("ValidationError") ELSE f.dflt

\* A decoding that fills a missing required field with the default.
field_value_lenient(f, data) ==
    IF f.wire \in DOMAIN data
    THEN validate_type(f, before_validator(f, data[f.wire]))
    ELSE f.dflt

\* The attribute a model instance gets for field f from the mapping data:
\* read from the field's wire name only; a missing required field is an
\* error and a missing optional one takes the default.
field_value(f, data) ==
    IF f.wire \in DOMAIN data
    THEN validate_type(f, before_validator(f, data[f.wire]))
    ELSE IF f.required THEN Exc("ValidationError") ELSE f.dflt

\* Model(**data): keyword unpacking needs a mapping (TypeError otherwise);
\* keys that name no field are ignored.
construct(model, data) ==
    IF data.t # "dict" THEN Exc("TypeError")
    ELSE LET fs == Fields(model)
             byName(n) == CHOOSE f \in fs : f.name = n
         IN  IF \E f \in fs : IsExc(field_value(f, data.fields))
             THEN Exc("ValidationError")
             ELSE PyEntity(model,
                      [n \in {f.name : f \in fs} |->
                          field_value(byName(n), data.fields)])

\* entity.model_dump(mode="json", by_alias=True): every field of the model
\* under its declared wire name, a datetime as its ISO 8601 string and
\* any other value of the model as it is.
model_dump(e) ==
    LET fs == Fields(e.model)
        byWire(w) == CHOOSE f \in fs : f.wire = w
        to_jsonable(v) == IF v.t = "datetime" THEN PyStr(v.iso) ELSE v
    IN  PyDict([w \in {f.wire : f \in fs} |-> to_jsonable(e.attrs[byWire(w).name])])

(***************************************************************************)
(* Python expressions the client's methods apply to a decoded response.    *)
(***************************************************************************)
\* A lookup written `data.get(key) or None`: an empty value becomes None.
py_get_falsy_none(data, key, default) ==
    IF data.t # "dict" THEN Exc("AttributeError")
    ELSE IF key \in DOMAIN data.fields /\ Truthy(data.fields[key])
    THEN data.fields[key] ELSE PyNone

\* data.get(key, default): AttributeError unless data is a dict.
py_get(data, key, default) ==
    IF data.t # "dict" THEN Exc("AttributeError")
    ELSE IF key \in DOMAIN data.fields THEN data.fields[key] ELSE default

\* [Model(**item) for item in items]: the first item that fails raises;
\* None is not iterable, and iterating a dict or a string yields strings,
\* which ** rejects.
comprehension(model, items) ==
    IF IsExc(items) THEN items
    ELSE IF items.t = "list"
    THEN LET built == [i \in DOMAIN items.items |-> construct(model, items.items[i])]
             bad == {i \in DOMAIN built : IsExc(built[i])}
         IN  IF bad = {} THEN PyList(built)
             ELSE built[CHOOSE i \in bad : \A j \in bad : i <= j]
    ELSE IF items.t \in {"dict", "str"} /\ ~Truthy(items) THEN EmptyList
    ELSE Exc("TypeError")

\* A method's outcome once an expression evaluated to v.
result(v) == IF IsExc(v) THEN Raise(v.exc) ELSE Return(v)

\* data = self._request(...): the value the method continues with, or the
\* exception of _request that is propagating.
returned(r) ==
    IF r.outcome.kind = "return" THEN r.outcome.value ELSE Exc(r.outcome.exc)

\* return v after data = self._request(...): an exception of _request
\* propagates unchanged, otherwise the method ends as evaluating v does.
then(r, v) ==
    IF r.outcome.kind = "raise" THEN r ELSE [r EXCEPT !.outcome = result(v)]

NoKwargs == [k \in {} |-> PyNone]

(***************************************************************************)
(* The environment: what the server may answer, and what callers pass.     *)
(***************************************************************************)
ErrorStatuses == {400, 404, 599}
OtherStatuses == {101, 200, 204, 304}
TransportErrors == {"ConnectionError", "Timeout", "ChunkedEncodingError"}

NotFound == PyDict([message |-> PyStr("not found")])
ErrorBodies == {BodyEmpty, BodyText, BodyJson(NotFound)}

\* The responses to a method whose successful JSON bodies are `values`.
Responses(values) ==
    {TransportFailure(e) : e \in TransportErrors}
    \cup {Response(st, b) : st \in ErrorStatuses, b \in ErrorBodies}
    \cup {Response(st, b) : st \in OtherStatuses,
                            b \in {BodyEmpty, BodyText} \cup {BodyJson(v) : v \in values}}

\* The lists of 1..MaxItems elements of S.
Lists(S) == {PyList(xs) : xs \in UNION {[1..n -> S] : n \in 1..MaxItems}}

\* The decoded bodies of a collection endpoint: the field absent, present
\* and empty, or present with elements.
Collections(key, S) ==
    {EmptyDict} \cup {PyDict(key :> l) : l \in {EmptyList} \cup Lists(S)}

Timestamp == PyStr("2024-01-01T00:00:00Z")

without(d, key) == PyDict([k \in DOMAIN d.fields \ {key} |-> d.fields[k]])
with(d, key, v) ==
    PyDict([k \in DOMAIN d.fields \cup {key} |-> IF k = key THEN v ELSE d.fields[k]])

\* A full valid wire mapping of each model.
Wire(model) ==
    CASE model = "Device" ->
            PyDict([id |-> PyStr("device1"),
                    addresses |-> PyList(<<PyStr("100.64.0.1")>>),
                    authorized |-> PyBool(TRUE),
                    created |-> Timestamp,
                    expires |-> PyStr("2024-12-31T23:59:59Z"),
                    lastSeen |-> Timestamp,
                    hostname |-> PyStr("test-device"),
                    name |-> PyStr("test-device"),
                    os |-> PyStr("linux"),
                    user |-> PyStr("user@test.com")])
      [] model = "User" ->
            PyDict([id |-> PyStr("u1"), loginName |-> PyStr("user@test.com"),
                    displayName |-> PyStr("User"), created |-> Timestamp,
                    lastSeen |-> Timestamp])
      [] model = "ACL" ->
            PyDict([acls |-> PyList(<<PyDict([action |-> PyStr("accept")])>>)])
      [] model = "DNSConfig" ->
            PyDict([magicDNS |-> PyBool(TRUE),
                    nameservers |-> PyList(<<PyStr("8.8.8.8")>>)])
      [] model = "DeviceInvite" ->
            PyDict([id |-> PyStr("i1"), created |-> Timestamp,
                    multiUse |-> PyBool(FALSE), allowExitNode |-> PyBool(FALSE),
                    used |-> PyBool(FALSE), deviceId |-> PyStr("device1"),
                    expires |-> Timestamp])
      [] model = "UserInvite" ->
            PyDict([id |-> PyStr("i2"), email |-> PyStr("user@test.com"),
                    role |-> PyStr("member"), createdAt |-> Timestamp,
                    expiresAt |-> Timestamp, accepted |-> PyBool(FALSE),
                    sentAt |-> Timestamp])
      [] model = "ApiKey" ->
            PyDict([id |-> PyStr("k1"), capabilities |-> EmptyDict,
                    created |-> Timestamp, expires |-> Timestamp,
                    revoked |-> Timestamp])
      [] model = "AuthKey" ->
            PyDict([id |-> PyStr("k2"), capabilities |-> EmptyDict,
                    created |-> Timestamp, expires |-> Timestamp,
                    revoked |-> Timestamp])
      [] model = "Webhook" ->
            PyDict([endpointId |-> PyStr("w1"),
                    endpointUrl |-> PyStr("https://example.com/hook"),
                    providerType |-> PyStr("generic"),
                    subscriptions |-> PyList(<<PyStr("nodeCreated")>>),
                    created |-> Timestamp, lastTriggered |-> Timestamp])
      [] model = "DeviceRoutes" ->
            PyDict([advertisedRoutes |-> PyList(<<PyStr("10.0.0.0/24")>>),
                    enabledRoutes |-> EmptyList])
      [] model = "DevicePostureAttributes" ->
            PyDict([attributes |-> PyDict("custom:a" :> PyStr("v"))])
      [] model = "LogEntry" ->
            PyDict([timestamp |-> Timestamp, type |-> PyStr("CONFIG"),
                    message |-> PyStr("m")])
      [] model = "ContactPreference" ->
            PyDict([security |-> PyStr("sec@test.com")])
      [] model = "TailnetSettings" ->
            PyDict([devicesApprovalOn |-> PyBool(TRUE),
                    devicesKeyDurationDays |-> PyInt(180),
                    magicDNSEnabled |-> PyBool(FALSE)])
      [] model = "PostureIntegration" ->
            PyDict([id |-> PyStr("p1"), provider |-> PyStr("intune"),
                    createdAt |-> Timestamp])

RequiredWire(model) == {f.wire : f \in {g \in Fields(model) : g.required}}
DatetimeWire(model) == {f.wire : f \in {g \in Fields(model) : g.kind = "datetime"}}

\* The mappings a server sends for a model: the full one, it with one
\* required field left out, with one timestamp field empty, null or left
\* out, and with a field keyed by its typed name instead of its wire name.
Mappings(model) ==
    {Wire(model)}
    \cup {without(Wire(model), k) : k \in RequiredWire(model)}
    \cup {with(Wire(model), k, v) : k \in DatetimeWire(model), v \in {PyStr(""), PyNone}}
    \cup {without(Wire(model), k) : k \in DatetimeWire(model)}
    \cup {with(without(Wire(model), f.wire), f.name, Wire(model).fields[f.wire]) :
            f \in {g \in Fields(model) : g.wire # g.name /\ g.wire \in DOMAIN Wire(model).fields}}

\* An element of an untyped collection.
Item == PyDict([id |-> PyStr("x1")])

(***************************************************************************)
(* The client's methods: each gives the requests a call sends and the      *)
(* call's outcome, from the caller's arguments and the server's response.  *)
(***************************************************************************)
\* A field selection that is sent only when it is not the full set.
fields_params_unless_all(fields) ==
    IF Truthy(fields) /\ fields # PyStr("all")
    THEN PyDict("fields" :> fields) ELSE PyNone

\* params = {"fields": fields} if fields else None
fields_params(fields) ==
    IF Truthy(fields) THEN PyDict("fields" :> fields) ELSE PyNone

list_devices(fields, resp) ==
    LET r == _request("GET", "/tailnet/" \o tailnet \o "/devices",
                      fields_params(fields), NoKwargs, resp)
        data == returned(r)
    IN  then(r, comprehension("Device", py_get(data, "devices", EmptyList)))

get_device(device_id, fields, resp) ==
    LET r == _request("GET", "/device/" \o device_id,
                      fields_params(fields), NoKwargs, resp)
        data == returned(r)
    IN  then(r, construct("Device", data))

list_device_invites(device_id, resp) ==
    LET r == _request("GET", "/device/" \o device_id \o "/device-invites",
                      PyNone, NoKwargs, resp)
        data == returned(r)
    IN  then(r, py_get(data, "invites", EmptyList))

list_users(resp) ==
    LET r == _request("GET", "/tailnet/" \o tailnet \o "/users",
                      PyNone, NoKwargs, resp)
        data == returned(r)
    IN  then(r, comprehension("User", py_get(data, "users", EmptyList)))

get_user(user_id, resp) ==
    LET r == _request("GET", "/tailnet/" \o tailnet \o "/users/" \o user_id,
                      PyNone, NoKwargs, resp)
        data == returned(r)
    IN  then(r, construct("User", data))

\* data.get("invites", []) if data else []
list_user_invites(resp) ==
    LET r == _request("GET", "/tailnet/" \o tailnet \o "/user-invites",
                      PyNone, NoKwargs, resp)
        data == returned(r)
    IN  then(r, IF Truthy(data) THEN py_get(data, "invites", EmptyList)
                ELSE EmptyList)

get_acl(resp) ==
    LET r == _request("GET", "/tailnet/" \o tailnet \o "/acl",
                      PyNone, NoKwargs, resp)
        data == returned(r)
    IN  then(r, construct("ACL", data))

update_acl(acl, if_unmodified_since, resp) ==
    LET headers == IF Truthy(if_unmodified_since)
                   THEN PyDict("If-Unmodified-Since" :> if_unmodified_since)
                   ELSE PyNone
        r == _request("POST", "/tailnet/" \o tailnet \o "/acl", PyNone,
                      ("json" :> acl) @@ ("headers" :> headers), resp)
        data == returned(r)
    IN  then(r, construct("ACL", data))

get_dns_config(resp) ==
    LET r == _request("GET", "/tailnet/" \o tailnet \o "/dns/preferences",
                      PyNone, NoKwargs, resp)
        data == returned(r)
    IN  then(r, construct("DNSConfig", data))

update_dns_config(config, resp) ==
    LET r == _request("POST", "/tailnet/" \o tailnet \o "/dns/preferences", PyNone,
                      "json" :> config, resp)
        data == returned(r)
    IN  then(r, construct("DNSConfig", data))

get_nameservers(resp) ==
    LET r == _request("GET", "/tailnet/" \o tailnet \o "/dns/nameservers",
                      PyNone, NoKwargs, resp)
        data == returned(r)
    IN  then(r, py_get(data, "dns", EmptyList))

get_searchpaths(resp) ==
    LET r == _request("GET", "/tailnet/" \o tailnet \o "/dns/searchpaths",
                      PyNone, NoKwargs, resp)
        data == returned(r)
    IN  then(r, py_get(data, "searchPaths", EmptyList))

list_api_keys(resp) ==
    LET r == _request("GET", "/tailnet/" \o tailnet \o "/keys",
                      PyNone, NoKwargs, resp)
        data == returned(r)
    IN  then(r, py_get(data, "keys", EmptyList))

list_auth_keys(resp) ==
    LET r == _request("GET", "/tailnet/" \o tailnet \o "/keys",
                      PyNone, NoKwargs, resp)
        data == returned(r)
    IN  then(r, py_get(data, "keys", EmptyList))

\* A dict with key set to v when v is truthy: the `if v: params[key] = v`
\* of the logging methods and the `if v: body[key] = v` of the methods
\* with optional body arguments.
set_if(d, key, v) == IF Truthy(v) THEN with(d, key, v) ELSE d

\* logs = data.get(key) if data else None; return logs if logs is not None else []
get_or_empty(data, key) ==
    LET got == IF Truthy(data) THEN py_get(data, key, PyNone) ELSE PyNone
    IN  IF got = PyNone THEN EmptyList ELSE got

get_configuration_audit_logs(start, end, actor, target, event, resp) ==
    LET params == set_if(set_if(set_if(set_if(PyDict("start" :> start),
                      "end", end), "actor", actor), "target", target), "event", event)
        r == _request("GET", "/tailnet/" \o tailnet \o "/logging/configuration",
                      params, NoKwargs, resp)
        data == returned(r)
    IN  then(r, get_or_empty(data, "logs"))

get_network_logs(start, end, resp) ==
    LET params == set_if(set_if(EmptyDict, "start", start), "end", end)
        r == _request("GET", "/tailnet/" \o tailnet \o "/logging/network",
                      params, NoKwargs, resp)
        data == returned(r)
    IN  then(r, py_get(data, "logs", EmptyList))

list_webhooks(resp) ==
    LET r == _request("GET", "/tailnet/" \o tailnet \o "/webhooks",
                      PyNone, NoKwargs, resp)
        data == returned(r)
    IN  then(r, get_or_empty(data, "webhooks"))

list_posture_integrations(resp) ==
    LET r == _request("GET", "/tailnet/" \o tailnet \o "/posture/integrations",
                      PyNone, NoKwargs, resp)
        data == returned(r)
    IN  then(r, py_get(data, "integrations", EmptyList))

(***************************************************************************)
(* Actions: one per public method, and one for building a model directly.  *)
(***************************************************************************)
\* A call that leaves the headers of its request on the session, as
\* session.headers.update(headers) in _request would.
Call_keeping_headers(op, args, r) ==
    /\ last = Idle
    /\ calls < MaxCalls
    /\ calls' = calls + 1
    /\ last' = [op |-> op, args |-> args, sent |-> r.sent,
                response |-> r.response, raw |-> r.raw, outcome |-> r.outcome]
    /\ session' = IF r.sent = <<>> THEN session
                  ELSE [session EXCEPT !.headers = r.sent[1].headers]
    /\ UNCHANGED <<api_key, tailnet, base_url>>

\* A caller's call of op with args completes with r: nothing of the client
\* is assigned by any method.  The client is synchronous: a caller makes
\* its next call after the previous one returned or raised.
Call(op, args, r) ==
    /\ last = Idle
    /\ calls < MaxCalls
    /\ calls' = calls + 1
    /\ last' = [op |-> op, args |-> args, sent |-> r.sent,
                response |-> r.response, raw |-> r.raw, outcome |-> r.outcome]
    /\ UNCHANGED <<api_key, tailnet, base_url, session>>

\* Responses that probe a method's non-default arguments: the request a
\* method builds does not depend on the response.
Probes == {Response(200, BodyEmpty), Response(404, BodyJson(NotFound)),
           TransportFailure("ConnectionError")}

\* Argument/response pairs: every response with the default arguments,
\* every argument tuple with the probe responses.
Inputs(Args, default, Resps) == (Args \X Probes) \cup ({default} \X Resps)

FieldsArgs == {PyStr("all"), PyStr("default"), PyStr(""), PyNone}
DeviceElems == {Wire("Device"), without(Wire("Device"), "id")}
UserElems == {Wire("User"), without(Wire("User"), "loginName")}
ACLBodies == Mappings("ACL") \cup {EmptyDict, with(Wire("ACL"), "acls", PyNone)}
TextArgs == {PyNone, PyStr(""), Timestamp}

call_list_devices ==
    \E p \in Inputs(FieldsArgs, PyStr("all"),
                    Responses(Collections("devices", DeviceElems))) :
        Call("list_devices", [fields |-> p[1]], list_devices(p[1], p[2]))

call_get_device ==
    \E p \in Inputs(FieldsArgs, PyStr("all"), Responses(Mappings("Device"))) :
        Call("get_device", [device_id |-> PyStr("d1"), fields |-> p[1]],
             get_device("d1", p[1], p[2]))

call_list_device_invites ==
    \E resp \in Responses(Collections("invites", {Item})) :
        Call("list_device_invites", [device_id |-> PyStr("d1")],
             list_device_invites("d1", resp))

call_list_users ==
    \E resp \in Responses(Collections("users", UserElems)) :
        Call("list_users", EmptyMap, list_users(resp))

call_get_user ==
    \E resp \in Responses(Mappings("User")) :
        Call("get_user", [user_id |-> PyStr("u1")], get_user("u1", resp))

call_list_user_invites ==
    \E resp \in Responses(Collections("invites", {Item})) :
        Call("list_user_invites", EmptyMap, list_user_invites(resp))

call_get_acl ==
    \E resp \in Responses(ACLBodies) :
        Call("get_acl", EmptyMap, get_acl(resp))

call_update_acl ==
    \E p \in Inputs({PyNone, PyStr(""), Timestamp}, PyNone, Responses(ACLBodies)) :
        Call("update_acl", [acl |-> Wire("ACL"), if_unmodified_since |-> p[1]],
             update_acl(Wire("ACL"), p[1], p[2]))

call_get_dns_config ==
    \E resp \in Responses(Mappings("DNSConfig")) :
        Call("get_dns_config", EmptyMap, get_dns_config(resp))

call_update_dns_config ==
    \E resp \in Responses(Mappings("DNSConfig")) :
        Call("update_dns_config", [config |-> Wire("DNSConfig")],
             update_dns_config(Wire("DNSConfig"), resp))

call_get_nameservers ==
    \E resp \in Responses(Collections("dns", {PyStr("8.8.8.8")})) :
        Call("get_nameservers", EmptyMap, get_nameservers(resp))

call_get_searchpaths ==
    \E resp \in Responses(Collections("searchPaths", {PyStr("example.com")})) :
        Call("get_searchpaths", EmptyMap, get_searchpaths(resp))

call_list_api_keys ==
    \E resp \in Responses(Collections("keys", {Item})) :
        Call("list_api_keys", EmptyMap, list_api_keys(resp))

call_list_auth_keys ==
    \E resp \in Responses(Collections("keys", {Item})) :
        Call("list_auth_keys", EmptyMap, list_auth_keys(resp))

call_get_configuration_audit_logs ==
    \E p \in Inputs({<<s, e, f>> : s \in {Timestamp, PyStr("")}, e \in TextArgs,
                                   f \in {PyNone, PyStr("x")}},
                    <<Timestamp, PyNone, PyNone>>,
                    Responses(Collections("logs", {Item}))) :
        Call("get_configuration_audit_logs",
             [start |-> p[1][1], end |-> p[1][2], actor |-> p[1][3],
              target |-> p[1][3], event |-> p[1][3]],
             get_configuration_audit_logs(p[1][1], p[1][2], p[1][3], p[1][3],
                                          p[1][3], p[2]))

call_get_network_logs ==
    \E p \in Inputs(TextArgs \X TextArgs, <<PyNone, PyNone>>,
                    Responses(Collections("logs", {Item}))) :
        Call("get_network_logs", [start |-> p[1][1], end |-> p[1][2]],
             get_network_logs(p[1][1], p[1][2], p[2]))

call_list_webhooks ==
    \E resp \in Responses(Collections("webhooks", {Item})) :
        Call("list_webhooks", EmptyMap, list_webhooks(resp))

call_list_posture_integrations ==
    \E resp \in Responses(Collections("integrations", {Item})) :
        Call("list_posture_integrations", EmptyMap, list_posture_integrations(resp))

\* The methods below are one call of _request each, with a path and for
\* some a JSON body built from the arguments; the action of each carries
\* the method's body.  A method that calls _request as a statement returns
\* None (then(r, PyNone)); one that ends with `return self._request(...)`
\* returns what _request returned.

\* A delete_device that ends with `return self._request(...)`.
call_delete_device_returning_data ==
    \E resp \in Responses({Item}) :
        LET device_id == "d1"
            r == _request("DELETE", "/device/" \o device_id,
                          PyNone, NoKwargs, resp)
        IN  Call("delete_device", [device_id |-> PyStr(device_id)], r)

call_delete_device ==
    \E resp \in Responses({Item}) :
        LET device_id == "d1"
            r == _request("DELETE", "/device/" \o device_id,
                          PyNone, NoKwargs, resp)
        IN  Call("delete_device",
                 [device_id |-> PyStr(device_id)],
                 then(r, PyNone))

call_authorize_device ==
    \E p \in Inputs({PyBool(TRUE), PyBool(FALSE)}, PyBool(TRUE),
                    Responses({Item})) :
        LET device_id == "d1"
            authorized == p[1]
            r == _request("POST", "/device/" \o device_id \o "/authorized",
                          PyNone,
                          "json" :> PyDict("authorized" :> authorized),
                          p[2])
        IN  Call("authorize_device",
                 [device_id |-> PyStr(device_id), authorized |-> authorized],
                 then(r, PyNone))

call_update_device_tags ==
    \E resp \in Responses({Item}) :
        LET device_id == "d1"
            tags == PyList(<<PyStr("tag:a")>>)
            r == _request("POST", "/device/" \o device_id \o "/tags",
                          PyNone, "json" :> PyDict("tags" :> tags), resp)
        IN  Call("update_device_tags",
                 [device_id |-> PyStr(device_id), tags |-> tags],
                 then(r, PyNone))

call_expire_device_key ==
    \E resp \in Responses({Item}) :
        LET device_id == "d1"
            r == _request("POST", "/device/" \o device_id \o "/expire",
                          PyNone, NoKwargs, resp)
        IN  Call("expire_device_key",
                 [device_id |-> PyStr(device_id)],
                 then(r, PyNone))

call_get_device_routes ==
    \E resp \in Responses({Item}) :
        LET device_id == "d1"
            r == _request("GET", "/device/" \o device_id \o "/routes",
                          PyNone, NoKwargs, resp)
        IN  Call("get_device_routes", [device_id |-> PyStr(device_id)], r)

call_set_device_routes ==
    \E resp \in Responses({Item}) :
        LET device_id == "d1"
            routes == PyList(<<PyStr("10.0.0.0/24")>>)
            r == _request("POST", "/device/" \o device_id \o "/routes",
                          PyNone, "json" :> PyDict("routes" :> routes), resp)
        IN  Call("set_device_routes",
                 [device_id |-> PyStr(device_id), routes |-> routes],
                 r)

call_set_device_name ==
    \E resp \in Responses({Item}) :
        LET device_id == "d1"
            name == PyStr("host")
            r == _request("POST", "/device/" \o device_id \o "/name",
                          PyNone, "json" :> PyDict("name" :> name), resp)
        IN  Call("set_device_name",
                 [device_id |-> PyStr(device_id), name |-> name],
                 then(r, PyNone))

call_update_device_key ==
    \E resp \in Responses({Item}) :
        LET device_id == "d1"
            key_expiry_disabled == PyBool(TRUE)
            r == _request("POST", "/device/" \o device_id \o "/key",
                          PyNone,
                          "json" :> PyDict("keyExpiryDisabled" :> key_expiry_disabled),
                          resp)
        IN  Call("update_device_key",
                 [device_id |-> PyStr(device_id),
                  key_expiry_disabled |-> key_expiry_disabled],
                 then(r, PyNone))

call_set_device_ipv4 ==
    \E resp \in Responses({Item}) :
        LET device_id == "d1"
            ipv4 == PyStr("100.64.0.2")
            r == _request("POST", "/device/" \o device_id \o "/ip",
                          PyNone, "json" :> PyDict("ipv4" :> ipv4), resp)
        IN  Call("set_device_ipv4",
                 [device_id |-> PyStr(device_id), ipv4 |-> ipv4],
                 then(r, PyNone))

call_get_device_attributes ==
    \E resp \in Responses({Item}) :
        LET device_id == "d1"
            r == _request("GET", "/device/" \o device_id \o "/attributes",
                          PyNone, NoKwargs, resp)
        IN  Call("get_device_attributes", [device_id |-> PyStr(device_id)], r)

call_set_device_attribute ==
    \E p \in Inputs(TextArgs \X TextArgs, <<PyNone, PyNone>>,
                    Responses({Item})) :
        LET device_id == "d1"
            attribute_key == "custom:a"
            value == PyStr("v")
            expiry == p[1][1]
            comment == p[1][2]
            body == set_if(set_if(PyDict("value" :> value), "expiry", expiry),
                          "comment", comment)
            r == _request("POST",
                          "/device/" \o device_id \o "/attributes/"
                              \o attribute_key,
                          PyNone, "json" :> body, p[2])
        IN  Call("set_device_attribute",
                 [device_id |-> PyStr(device_id),
                  attribute_key |-> PyStr(attribute_key), value |-> value,
                  expiry |-> expiry, comment |-> comment],
                 r)

call_delete_device_attribute ==
    \E resp \in Responses({Item}) :
        LET device_id == "d1"
            attribute_key == "custom:a"
            r == _request("DELETE",
                          "/device/" \o device_id \o "/attributes/"
                              \o attribute_key,
                          PyNone, NoKwargs, resp)
        IN  Call("delete_device_attribute",
                 [device_id |-> PyStr(device_id),
                  attribute_key |-> PyStr(attribute_key)],
                 then(r, PyNone))

call_create_device_invite ==
    \E p \in Inputs(TextArgs, PyNone, Responses({Item})) :
        LET device_id == "d1"
            multiUse == PyBool(FALSE)
            allowExitNode == PyBool(FALSE)
            email == p[1]
            body == set_if(PyDict(("multiUse" :> multiUse)
                                 @@ ("allowExitNode" :> allowExitNode)),
                          "email", email)
            r == _request("POST", "/device/" \o device_id \o "/device-invites",
                          PyNone, "json" :> body, p[2])
        IN  Call("create_device_invite",
                 [device_id |-> PyStr(device_id), multiUse |-> multiUse,
                  allowExitNode |-> allowExitNode, email |-> email],
                 r)

call_get_device_invite ==
    \E resp \in Responses({Item}) :
        LET invite_id == "i1"
            r == _request("GET", "/device-invites/" \o invite_id,
                          PyNone, NoKwargs, resp)
        IN  Call("get_device_invite", [invite_id |-> PyStr(invite_id)], r)

call_delete_device_invite ==
    \E resp \in Responses({Item}) :
        LET invite_id == "i1"
            r == _request("DELETE", "/device-invites/" \o invite_id,
                          PyNone, NoKwargs, resp)
        IN  Call("delete_device_invite",
                 [invite_id |-> PyStr(invite_id)],
                 then(r, PyNone))

call_resend_device_invite ==
    \E resp \in Responses({Item}) :
        LET invite_id == "i1"
            r == _request("POST", "/device-invites/" \o invite_id \o "/resend",
                          PyNone, NoKwargs, resp)
        IN  Call("resend_device_invite",
                 [invite_id |-> PyStr(invite_id)],
                 then(r, PyNone))

call_accept_device_invite ==
    \E resp \in Responses({Item}) :
        LET code == PyStr("c1")
            r == _request("POST", "/device-invites/-/accept",
                          PyNone, "json" :> PyDict("code" :> code), resp)
        IN  Call("accept_device_invite", [code |-> code], then(r, PyNone))

call_delete_user ==
    \E resp \in Responses({Item}) :
        LET user_id == "u1"
            r == _request("DELETE",
                          "/tailnet/" \o tailnet \o "/users/"
                              \o user_id,
                          PyNone, NoKwargs, resp)
        IN  Call("delete_user", [user_id |-> PyStr(user_id)], then(r, PyNone))

call_approve_user ==
    \E resp \in Responses({Item}) :
        LET user_id == "u1"
            r == _request("POST", "/users/" \o user_id \o "/approve",
                          PyNone, NoKwargs, resp)
        IN  Call("approve_user", [user_id |-> PyStr(user_id)], then(r, PyNone))

call_suspend_user ==
    \E resp \in Responses({Item}) :
        LET user_id == "u1"
            r == _request("POST", "/users/" \o user_id \o "/suspend",
                          PyNone, NoKwargs, resp)
        IN  Call("suspend_user", [user_id |-> PyStr(user_id)], then(r, PyNone))

call_restore_user ==
    \E resp \in Responses({Item}) :
        LET user_id == "u1"
            r == _request("POST", "/users/" \o user_id \o "/restore",
                          PyNone, NoKwargs, resp)
        IN  Call("restore_user", [user_id |-> PyStr(user_id)], then(r, PyNone))

call_delete_user_v2 ==
    \E resp \in Responses({Item}) :
        LET user_id == "u1"
            r == _request("POST", "/users/" \o user_id \o "/delete",
                          PyNone, NoKwargs, resp)
        IN  Call("delete_user_v2",
                 [user_id |-> PyStr(user_id)],
                 then(r, PyNone))

call_set_user_role ==
    \E resp \in Responses({Item}) :
        LET user_id == "u1"
            role == PyStr("admin")
            r == _request("POST", "/users/" \o user_id \o "/role",
                          PyNone, "json" :> PyDict("role" :> role), resp)
        IN  Call("set_user_role",
                 [user_id |-> PyStr(user_id), role |-> role],
                 then(r, PyNone))

call_create_user_invite ==
    \E resp \in Responses({Item}) :
        LET email == PyStr("user@test.com")
            role == PyStr("member")
            r == _request("POST", "/tailnet/" \o tailnet \o "/user-invites",
                          PyNone,
                          "json" :> PyDict(("email" :> email) @@ ("role" :> role)),
                          resp)
        IN  Call("create_user_invite", [email |-> email, role |-> role], r)

call_get_user_invite ==
    \E resp \in Responses({Item}) :
        LET invite_id == "i2"
            r == _request("GET", "/user-invites/" \o invite_id,
                          PyNone, NoKwargs, resp)
        IN  Call("get_user_invite", [invite_id |-> PyStr(invite_id)], r)

call_delete_user_invite ==
    \E resp \in Responses({Item}) :
        LET invite_id == "i2"
            r == _request("DELETE", "/user-invites/" \o invite_id,
                          PyNone, NoKwargs, resp)
        IN  Call("delete_user_invite",
                 [invite_id |-> PyStr(invite_id)],
                 then(r, PyNone))

call_resend_user_invite ==
    \E resp \in Responses({Item}) :
        LET invite_id == "i2"
            r == _request("POST", "/user-invites/" \o invite_id \o "/resend",
                          PyNone, NoKwargs, resp)
        IN  Call("resend_user_invite",
                 [invite_id |-> PyStr(invite_id)],
                 then(r, PyNone))

call_preview_acl ==
    \E resp \in Responses({Item}) :
        LET acl == Wire("ACL")
            r == _request("POST", "/tailnet/" \o tailnet \o "/acl/preview",
                          PyNone, "json" :> acl, resp)
        IN  Call("preview_acl", [acl |-> acl], r)

call_validate_acl ==
    \E resp \in Responses({Item}) :
        LET acl == Wire("ACL")
            r == _request("POST", "/tailnet/" \o tailnet \o "/acl/validate",
                          PyNone, "json" :> acl, resp)
        IN  Call("validate_acl", [acl |-> acl], r)

call_set_nameservers ==
    \E resp \in Responses({Item}) :
        LET nameservers == PyList(<<PyStr("8.8.8.8")>>)
            r == _request("POST", "/tailnet/" \o tailnet \o "/dns/nameservers",
                          PyNone, "json" :> PyDict("dns" :> nameservers), resp)
        IN  Call("set_nameservers",
                 [nameservers |-> nameservers],
                 then(r, PyNone))

call_set_searchpaths ==
    \E resp \in Responses({Item}) :
        LET searchpaths == PyList(<<PyStr("example.com")>>)
            r == _request("POST", "/tailnet/" \o tailnet \o "/dns/searchpaths",
                          PyNone,
                          "json" :> PyDict("searchPaths" :> searchpaths),
                          resp)
        IN  Call("set_searchpaths",
                 [searchpaths |-> searchpaths],
                 then(r, PyNone))

call_get_split_dns ==
    \E resp \in Responses({Item}) :
        LET r == _request("GET", "/tailnet/" \o tailnet \o "/dns/split-dns",
                          PyNone, NoKwargs, resp)
        IN  Call("get_split_dns", EmptyMap, r)

call_update_split_dns ==
    \E resp \in Responses({Item}) :
        LET config == EmptyDict
            r == _request("PATCH", "/tailnet/" \o tailnet \o "/dns/split-dns",
                          PyNone, "json" :> config, resp)
        IN  Call("update_split_dns", [config |-> config], r)

call_create_api_key ==
    \E p \in Inputs(TextArgs, PyNone, Responses({Item})) :
        LET capabilities == EmptyDict
            expiry_seconds == PyInt(90 * 24 * 60 * 60)
            description == p[1]
            body == set_if(PyDict(("capabilities" :> capabilities)
                                 @@ ("expirySeconds" :> expiry_seconds)),
                          "description", description)
            r == _request("POST", "/tailnet/" \o tailnet \o "/keys",
                          PyNone, "json" :> body, p[2])
        IN  Call("create_api_key",
                 [capabilities |-> capabilities,
                  expiry_seconds |-> expiry_seconds,
                  description |-> description],
                 r)

call_get_api_key ==
    \E resp \in Responses({Item}) :
        LET key_id == "k1"
            r == _request("GET", "/tailnet/" \o tailnet \o "/keys/" \o key_id,
                          PyNone, NoKwargs, resp)
        IN  Call("get_api_key", [key_id |-> PyStr(key_id)], r)

call_delete_api_key ==
    \E resp \in Responses({Item}) :
        LET key_id == "k1"
            r == _request("DELETE",
                          "/tailnet/" \o tailnet \o "/keys/"
                              \o key_id,
                          PyNone, NoKwargs, resp)
        IN  Call("delete_api_key", [key_id |-> PyStr(key_id)], then(r, PyNone))

call_create_auth_key ==
    \E p \in Inputs(TextArgs \X {PyNone, EmptyList, PyList(<<PyStr("tag:a")>>)},
                    <<PyNone, PyNone>>, Responses({Item})) :
        LET ephemeral == PyBool(FALSE)
            reusable == PyBool(FALSE)
            expiry_seconds == PyInt(90 * 24 * 60 * 60)
            description == p[1][1]
            tags == p[1][2]
            create == PyDict(("ephemeral" :> ephemeral) @@ ("reusable" :> reusable)
                             @@ ("tags" :> IF Truthy(tags) THEN tags ELSE EmptyList))
            body == set_if(PyDict(("capabilities" :>
                                      PyDict("devices" :> PyDict("create" :> create)))
                                 @@ ("expirySeconds" :> expiry_seconds)),
                          "description", description)
            r == _request("POST", "/tailnet/" \o tailnet \o "/keys",
                          PyNone, "json" :> body, p[2])
        IN  Call("create_auth_key",
                 [ephemeral |-> ephemeral, reusable |-> reusable,
                  expiry_seconds |-> expiry_seconds,
                  description |-> description, tags |-> tags],
                 r)

call_get_log_stream_status ==
    \E resp \in Responses({Item}) :
        LET log_type == "network"
            r == _request("GET",
                          "/tailnet/" \o tailnet \o "/logging/" \o log_type
                              \o "/stream/status",
                          PyNone, NoKwargs, resp)
        IN  Call("get_log_stream_status", [log_type |-> PyStr(log_type)], r)

call_set_log_stream ==
    \E resp \in Responses({Item}) :
        LET log_type == "network"
            destination == PyStr("https://example.com/logs")
            enabled == PyBool(TRUE)
            body == PyDict(("destination" :> destination)
                           @@ ("enabled" :> enabled))
            r == _request("POST",
                          "/tailnet/" \o tailnet \o "/logging/" \o log_type
                              \o "/stream",
                          PyNone, "json" :> body, resp)
        IN  Call("set_log_stream",
                 [log_type |-> PyStr(log_type), destination |-> destination,
                  enabled |-> enabled],
                 then(r, PyNone))

call_delete_log_stream ==
    \E resp \in Responses({Item}) :
        LET log_type == "network"
            r == _request("DELETE",
                          "/tailnet/" \o tailnet \o "/logging/" \o log_type
                              \o "/stream",
                          PyNone, NoKwargs, resp)
        IN  Call("delete_log_stream",
                 [log_type |-> PyStr(log_type)],
                 then(r, PyNone))

call_get_contacts ==
    \E resp \in Responses({Item}) :
        LET r == _request("GET", "/tailnet/" \o tailnet \o "/contacts",
                          PyNone, NoKwargs, resp)
        IN  Call("get_contacts", EmptyMap, r)

call_update_contact ==
    \E resp \in Responses({Item}) :
        LET contact_type == "security"
            email == PyStr("user@test.com")
            r == _request("PATCH",
                          "/tailnet/" \o tailnet \o "/contacts/"
                              \o contact_type,
                          PyNone, "json" :> PyDict("email" :> email), resp)
        IN  Call("update_contact",
                 [contact_type |-> PyStr(contact_type), email |-> email],
                 r)

call_resend_contact_verification ==
    \E resp \in Responses({Item}) :
        LET contact_type == "security"
            r == _request("POST",
                          "/tailnet/" \o tailnet \o "/contacts/"
                              \o contact_type \o "/resend-verification-email",
                          PyNone, NoKwargs, resp)
        IN  Call("resend_contact_verification",
                 [contact_type |-> PyStr(contact_type)],
                 then(r, PyNone))

call_create_webhook ==
    \E p \in Inputs({PyNone, EmptyList, PyList(<<PyStr("tag:a")>>)},
                    PyNone, Responses({Item})) :
        LET endpoint_url == PyStr("https://example.com/hook")
            provider_type == PyStr("generic")
            subscriptions == p[1]
            body == set_if(PyDict(("endpointUrl" :> endpoint_url)
                                 @@ ("providerType" :> provider_type)),
                          "subscriptions", subscriptions)
            r == _request("POST", "/tailnet/" \o tailnet \o "/webhooks",
                          PyNone, "json" :> body, p[2])
        IN  Call("create_webhook",
                 [endpoint_url |-> endpoint_url,
                  provider_type |-> provider_type,
                  subscriptions |-> subscriptions],
                 r)

call_get_webhook ==
    \E resp \in Responses({Item}) :
        LET endpoint_id == "w1"
            r == _request("GET", "/webhooks/" \o endpoint_id,
                          PyNone, NoKwargs, resp)
        IN  Call("get_webhook", [endpoint_id |-> PyStr(endpoint_id)], r)

call_update_webhook ==
    \E resp \in Responses({Item}) :
        LET endpoint_id == "w1"
            subscriptions == PyList(<<PyStr("nodeCreated")>>)
            r == _request("PATCH", "/webhooks/" \o endpoint_id,
                          PyNone,
                          "json" :> PyDict("subscriptions" :> subscriptions),
                          resp)
        IN  Call("update_webhook",
                 [endpoint_id |-> PyStr(endpoint_id),
                  subscriptions |-> subscriptions],
                 r)

call_delete_webhook ==
    \E resp \in Responses({Item}) :
        LET endpoint_id == "w1"
            r == _request("DELETE", "/webhooks/" \o endpoint_id,
                          PyNone, NoKwargs, resp)
        IN  Call("delete_webhook",
                 [endpoint_id |-> PyStr(endpoint_id)],
                 then(r, PyNone))

call_test_webhook ==
    \E resp \in Responses({Item}) :
        LET endpoint_id == "w1"
            r == _request("POST", "/webhooks/" \o endpoint_id \o "/test",
                          PyNone, NoKwargs, resp)
        IN  Call("test_webhook",
                 [endpoint_id |-> PyStr(endpoint_id)],
                 then(r, PyNone))

call_rotate_webhook_secret ==
    \E resp \in Responses({with(Wire("Webhook"), "secret", PyStr("s1"))}) :
        LET endpoint_id == "w1"
            r == _request("POST", "/webhooks/" \o endpoint_id \o "/rotate",
                          PyNone, NoKwargs, resp)
        IN  Call("rotate_webhook_secret",
                 [endpoint_id |-> PyStr(endpoint_id)],
                 r)

call_get_tailnet_settings ==
    \E resp \in Responses({Wire("TailnetSettings")}) :
        LET r == _request("GET", "/tailnet/" \o tailnet \o "/settings",
                          PyNone, NoKwargs, resp)
        IN  Call("get_tailnet_settings", EmptyMap, r)

call_update_tailnet_settings ==
    \E resp \in Responses({Item}) :
        LET settings == Wire("TailnetSettings")
            r == _request("PATCH", "/tailnet/" \o tailnet \o "/settings",
                          PyNone, "json" :> settings, resp)
        IN  Call("update_tailnet_settings", [settings |-> settings], r)

call_create_posture_integration ==
    \E resp \in Responses({Item}) :
        LET provider == PyStr("intune")
            config == EmptyDict
            r == _request("POST",
                          "/tailnet/" \o tailnet
                              \o "/posture/integrations",
                          PyNone,
                          "json" :> PyDict(("provider" :> provider) @@ ("config" :> config)),
                          resp)
        IN  Call("create_posture_integration",
                 [provider |-> provider, config |-> config],
                 r)

call_get_posture_integration ==
    \E resp \in Responses({Item}) :
        LET integration_id == "p1"
            r == _request("GET",
                          "/tailnet/" \o tailnet \o "/posture/integrations/"
                              \o integration_id,
                          PyNone, NoKwargs, resp)
        IN  Call("get_posture_integration",
                 [integration_id |-> PyStr(integration_id)],
                 r)

call_update_posture_integration ==
    \E resp \in Responses({Item}) :
        LET integration_id == "p1"
            config == EmptyDict
            r == _request("PATCH",
                          "/tailnet/" \o tailnet \o "/posture/integrations/"
                              \o integration_id,
                          PyNone, "json" :> PyDict("config" :> config), resp)
        IN  Call("update_posture_integration",
                 [integration_id |-> PyStr(integration_id), config |-> config],
                 r)

call_delete_posture_integration ==
    \E resp \in Responses({Item}) :
        LET integration_id == "p1"
            r == _request("DELETE",
                          "/tailnet/" \o tailnet \o "/posture/integrations/"
                              \o integration_id,
                          PyNone, NoKwargs, resp)
        IN  Call("delete_posture_integration",
                 [integration_id |-> PyStr(integration_id)],
                 then(r, PyNone))

\* A caller builds a model from a mapping, Model(**data), as the client
\* does with a response; no request is sent.
call_construct ==
    \E model \in ModelNames :
        \E data \in Mappings(model) \cup {PyNone} :
            Call(model, [data |-> data],
                 [sent |-> <<>>, response |-> NoResponse,
                  raw |-> Return(data),
                  outcome |-> result(construct(model, data))])

\* The caller takes the value or handles the exception and goes on: the
\* client keeps nothing of the finished call.
caller_resumes ==
    /\ last # Idle
    /\ last' = Idle
    /\ UNCHANGED <<api_key, tailnet, base_url, session, calls>>

Next ==
    \/ call_list_devices
    \/ call_get_device
    \/ call_list_device_invites
    \/ call_list_users
    \/ call_get_user
    \/ call_list_user_invites
    \/ call_get_acl
    \/ call_update_acl
    \/ call_get_dns_config
    \/ call_update_dns_config
    \/ call_get_nameservers
    \/ call_get_searchpaths
    \/ call_list_api_keys
    \/ call_list_auth_keys
    \/ call_get_configuration_audit_logs
    \/ call_get_network_logs
    \/ call_list_webhooks
    \/ call_list_posture_integrations
    \/ call_delete_device
    \/ call_authorize_device
    \/ call_update_device_tags
    \/ call_expire_device_key
    \/ call_get_device_routes
    \/ call_set_device_routes
    \/ call_set_device_name
    \/ call_update_device_key
    \/ call_set_device_ipv4
    \/ call_get_device_attributes
    \/ call_set_device_attribute
    \/ call_delete_device_attribute
    \/ call_create_device_invite
    \/ call_get_device_invite
    \/ call_delete_device_invite
    \/ call_resend_device_invite
    \/ call_accept_device_invite
    \/ call_delete_user
    \/ call_approve_user
    \/ call_suspend_user
    \/ call_restore_user
    \/ call_delete_user_v2
    \/ call_set_user_role
    \/ call_create_user_invite
    \/ call_get_user_invite
    \/ call_delete_user_invite
    \/ call_resend_user_invite
    \/ call_preview_acl
    \/ call_validate_acl
    \/ call_set_nameservers
    \/ call_set_searchpaths
    \/ call_get_split_dns
    \/ call_update_split_dns
    \/ call_create_api_key
    \/ call_get_api_key
    \/ call_delete_api_key
    \/ call_create_auth_key
    \/ call_get_log_stream_status
    \/ call_set_log_stream
    \/ call_delete_log_stream
    \/ call_get_contacts
    \/ call_update_contact
    \/ call_resend_contact_verification
    \/ call_create_webhook
    \/ call_get_webhook
    \/ call_update_webhook
    \/ call_delete_webhook
    \/ call_test_webhook
    \/ call_rotate_webhook_secret
    \/ call_get_tailnet_settings
    \/ call_update_tailnet_settings
    \/ call_create_posture_integration
    \/ call_get_posture_integration
    \/ call_update_posture_integration
    \/ call_delete_posture_integration
    \/ call_construct
    \/ caller_resumes

Spec == Init /\ [][Next]_vars

(***************************************************************************)
(* Properties of the error translation in _request.                        *)
(***************************************************************************)
\* The delete, authorize, approve/suspend/restore, resend, accept and test
\* methods: the body of each is the statement self._request(...).
StatementMethods ==
    {"delete_device", "authorize_device", "delete_device_attribute",
     "delete_device_invite", "resend_device_invite", "accept_device_invite",
     "delete_user", "approve_user", "suspend_user", "restore_user",
     "delete_user_v2", "delete_user_invite", "resend_user_invite",
     "delete_api_key", "delete_log_stream", "resend_contact_verification",
     "delete_webhook", "test_webhook", "delete_posture_integration"}

\* The methods that add optional arguments to the request body.
BodyBuilders ==
    {"set_device_attribute", "create_device_invite", "create_api_key",
     "create_auth_key", "create_webhook"}

ClientMethods ==
    {"list_devices", "get_device", "list_device_invites", "list_users",
     "get_user", "list_user_invites", "get_acl", "update_acl", "get_dns_config",
     "update_dns_config", "get_nameservers", "get_searchpaths", "list_api_keys",
     "list_auth_keys", "get_configuration_audit_logs", "get_network_logs",
     "list_webhooks", "list_posture_integrations",
     "delete_device", "authorize_device", "update_device_tags",
     "expire_device_key", "get_device_routes", "set_device_routes",
     "set_device_name", "update_device_key", "set_device_ipv4",
     "get_device_attributes", "set_device_attribute",
     "delete_device_attribute", "create_device_invite",
     "get_device_invite", "delete_device_invite", "resend_device_invite",
     "accept_device_invite", "delete_user", "approve_user",
     "suspend_user", "restore_user", "delete_user_v2", "set_user_role",
     "create_user_invite", "get_user_invite", "delete_user_invite",
     "resend_user_invite", "preview_acl", "validate_acl",
     "set_nameservers", "set_searchpaths", "get_split_dns",
     "update_split_dns", "create_api_key", "get_api_key",
     "delete_api_key", "create_auth_key", "get_log_stream_status",
     "set_log_stream", "delete_log_stream", "get_contacts",
     "update_contact", "resend_contact_verification", "create_webhook",
     "get_webhook", "update_webhook", "delete_webhook", "test_webhook",
     "rotate_webhook_secret", "get_tailnet_settings",
     "update_tailnet_settings", "create_posture_integration",
     "get_posture_integration", "update_posture_integration",
     "delete_posture_integration"}

\* The last step was a call of a client method that got an HTTP response.
Answered == last.op \in ClientMethods /\ last.response.fail = "none"
ErrorStatus == Answered /\ last.response.status \in 400..599
SuccessStatus == Answered /\ last.response.status \in 200..299
RaisedAPIError(out) == out.kind = "raise" /\ out.exc = "TspyAPIError"

\* C1: an HTTP error response (400-599) whose body parses as JSON makes the
\* method raise TspyAPIError with status_code the HTTP status and
\* response_data the parsed body; nothing is returned.
C1_ErrorCarriesParsedBody ==
    (ErrorStatus /\ last.response.body.kind = "json") =>
        /\ RaisedAPIError(last.outcome)
        /\ last.outcome.status_code = PyInt(last.response.status)
        /\ last.outcome.response_data = last.response.body.value

C1_Witness ==
    /\ last.op = "get_device"
    /\ last.response = Response(404, BodyJson(NotFound))
    /\ RaisedAPIError(last.outcome)
    /\ last.outcome.status_code = PyInt(404)
    /\ last.outcome.response_data = NotFound

\* C2: an HTTP error response whose body is not valid JSON makes the method
\* raise TspyAPIError with status_code the HTTP status and response_data
\* None; the failed parse of the body raises nothing of its own.
C2_ErrorWithoutJsonBody ==
    (ErrorStatus /\ last.response.body.kind # "json") =>
        /\ RaisedAPIError(last.outcome)
        /\ last.outcome.status_code = PyInt(last.response.status)
        /\ last.outcome.response_data = PyNone

C2_Witness ==
    /\ last.op = "list_devices"
    /\ last.response = Response(404, BodyText)
    /\ last.outcome = TspyAPIError(PyInt(404), PyNone)

\* C3: a transport-level failure of the request makes the method raise
\* TspyAPIError with status_code None and response_data None, never the
\* requests exception itself.
C3_TransportFailureIsAPIError ==
    (last.op \in ClientMethods /\ last.response.fail # "none") =>
        /\ RaisedAPIError(last.outcome)
        /\ last.outcome.status_code = PyNone
        /\ last.outcome.response_data = PyNone

C3_Witness ==
    /\ last.op = "get_user"
    /\ last.response = TransportFailure("Timeout")
    /\ last.outcome = TspyAPIError(PyNone, PyNone)

C5_EmptyBodyIsNone ==
    /\ (SuccessStatus /\ last.response.body.kind = "empty") =>
          last.raw = Return(PyNone)
    /\ (SuccessStatus /\ last.response.body.kind = "json") =>
          last.raw = Return(last.response.body.value)

C5_Witness ==
    /\ SuccessStatus
    /\ last.response.body.kind = "empty"
    /\ last.raw = Return(PyNone)

\* C6: a 2xx response whose non-empty body is not valid JSON makes the
\* method raise TspyAPIError, not a JSON decoding exception, and return
\* nothing.
C6_UndecodableSuccessIsAPIError ==
    (SuccessStatus /\ last.response.body.kind = "text") =>
        RaisedAPIError(last.outcome)

C6_Witness ==
    /\ last.op = "get_device"
    /\ last.response = Response(200, BodyText)
    /\ RaisedAPIError(last.outcome)

(***************************************************************************)
(* Properties of the methods' decoding of a successful response.           *)
(***************************************************************************)
\* The field each list-returning method unwraps from the decoded mapping.
CollectionField ==
    [list_devices |-> "devices", list_users |-> "users",
     list_device_invites |-> "invites", list_user_invites |-> "invites",
     get_nameservers |-> "dns", get_searchpaths |-> "searchPaths",
     list_api_keys |-> "keys", list_auth_keys |-> "keys",
     get_configuration_audit_logs |-> "logs", get_network_logs |-> "logs",
     list_webhooks |-> "webhooks", list_posture_integrations |-> "integrations"]

\* The model each entity-returning method decodes the response into, and
\* the model of the elements of the two typed lists.
EntityModel ==
    [get_device |-> "Device", get_user |-> "User", get_acl |-> "ACL",
     update_acl |-> "ACL", get_dns_config |-> "DNSConfig",
     update_dns_config |-> "DNSConfig"]
ElementModel == [list_devices |-> "Device", list_users |-> "User"]

\* The last step was a list-returning method answered with a 2xx status.
ListSuccess == SuccessStatus /\ last.op \in DOMAIN CollectionField
ListBodyHas(key) ==
    /\ last.response.body.kind = "json"
    /\ last.response.body.value.t = "dict"
    /\ key \in DOMAIN last.response.body.value.fields

\* C7, as claimed: every list-returning method returns an empty list, and
\* raises nothing, when the successful response has an empty body or is a
\* mapping without the collection field.
C7_AbsentCollectionIsEmptyList ==
    (/\ ListSuccess
     /\ \/ last.response.body.kind = "empty"
        \/ /\ last.response.body.kind = "json"
           /\ last.response.body.value.t = "dict"
           /\ ~ListBodyHas(CollectionField[last.op])) =>
        last.outcome = Return(EmptyList)

\* C8: a successful response whose collection field is present and empty
\* makes every list-returning method return an empty list; it neither
\* raises nor returns None.
C8_EmptyCollectionIsEmptyList ==
    (/\ ListSuccess
     /\ ListBodyHas(CollectionField[last.op])
     /\ last.response.body.value.fields[CollectionField[last.op]] = EmptyList) =>
        last.outcome = Return(EmptyList)

C8_Witness ==
    /\ last.op = "list_users"
    /\ last.response = Response(200, BodyJson(PyDict("users" :> EmptyList)))
    /\ last.outcome = Return(EmptyList)

\* The mapping d has no key for some required field of the model.
Lacking(model, d) ==
    d.t = "dict" /\ RequiredWire(model) \ DOMAIN d.fields # {}

\* The entities a returned value holds.
EntitiesOf(v) ==
    IF v.t = "entity" THEN {v}
    ELSE IF v.t = "list"
    THEN {v.items[i] : i \in {j \in DOMAIN v.items : v.items[j].t = "entity"}}
    ELSE {}

\* C9: a successful response that lacks a required field of the entity
\* (the response mapping itself, or an element of the "devices" or "users"
\* list) makes the method raise pydantic's validation error, and no method
\* returns an entity with a required field unset.
C9_MissingRequiredFieldRaises ==
    /\ (/\ last.op \in DOMAIN EntityModel
        /\ last.raw.kind = "return"
        /\ Lacking(EntityModel[last.op], last.raw.value)) =>
          last.outcome = Raise("ValidationError")
    /\ (/\ last.op \in DOMAIN ElementModel
        /\ last.raw.kind = "return"
        /\ last.raw.value.t = "dict"
        /\ CollectionField[last.op] \in DOMAIN last.raw.value.fields
        /\ LET items == last.raw.value.fields[CollectionField[last.op]]
           IN  /\ items.t = "list"
               /\ \A i \in DOMAIN items.items : items.items[i].t = "dict"
               /\ \E i \in DOMAIN items.items :
                     Lacking(ElementModel[last.op], items.items[i])) =>
          last.outcome = Raise("ValidationError")
    /\ last.outcome.kind = "return" =>
          \A e \in EntitiesOf(last.outcome.value) :
              \A f \in Fields(e.model) : f.required => e.attrs[f.name] # PyNone

C9_Witness ==
    /\ last.op = "get_device"
    /\ last.response = Response(200, BodyJson(without(Wire("Device"), "id")))
    /\ last.outcome = Raise("ValidationError")

\* The last step decoded a mapping into one entity: the model and the mapping.
Decoded ==
    /\ last.op \in ModelNames \cup DOMAIN EntityModel
    /\ last.raw.kind = "return"
    /\ last.raw.value.t = "dict"
DecodedModel == IF last.op \in ModelNames THEN last.op ELSE EntityModel[last.op]

\* The timestamp fields of the model that the mapping d gives as "".
EmptyTimestamps(model, d) ==
    {f \in Fields(model) :
        f.kind = "datetime" /\ f.wire \in DOMAIN d.fields /\ d.fields[f.wire] = PyStr("")}

\* A mapping, valid but for it, gave a timestamp field of a model of M as "".
EmptyTimestampIn(M) ==
    /\ Decoded
    /\ DecodedModel \in M
    /\ ~Lacking(DecodedModel, last.raw.value)
    /\ EmptyTimestamps(DecodedModel, last.raw.value) # {}

DecodedToNone ==
    /\ last.outcome.kind = "return"
    /\ \A f \in EmptyTimestamps(DecodedModel, last.raw.value) :
          last.outcome.value.attrs[f.name] = PyNone

\* C10, as claimed: a timestamp field that arrives as the empty string
\* decodes to None, with no parse error, in every model that declares one:
\* Device, User, DeviceInvite, UserInvite, ApiKey, AuthKey and Webhook.
C10_EmptyTimestampIsNoneEverywhere ==
    EmptyTimestampIn(ModelNames) => DecodedToNone

\* C10, amended: created, expires and last_seen of a Device and created and
\* last_seen of a User decode from the empty string to None; DeviceInvite,
\* UserInvite, ApiKey, AuthKey and Webhook declare no such validator, and
\* an empty-string timestamp there raises pydantic's validation error.
C10_EmptyTimestampIsNone ==
    /\ EmptyTimestampIn({"Device", "User"}) => DecodedToNone
    /\ EmptyTimestampIn(ModelNames \ {"Device", "User"}) =>
          last.outcome = Raise("ValidationError")

C10_Witness ==
    /\ last.op = "get_device"
    /\ last.response = Response(200, BodyJson(with(Wire("Device"), "lastSeen", PyStr(""))))
    /\ last.outcome.kind = "return"
    /\ last.outcome.value.attrs["last_seen"] = PyNone
    /\ last.outcome.value.attrs["created"] = PyDatetime("2024-01-01T00:00:00Z")

\* The methods C11 names: every delete_* method, authorize_device, the
\* approve/suspend/restore, resend and accept methods, test_webhook and
\* rotate_webhook_secret.
NoResponseMethods == StatementMethods \cup {"rotate_webhook_secret"}

\* _request returned to the method (the status was not an error and the
\* body, if any, parsed).
RequestSucceeded == last.op \in ClientMethods /\ last.raw.kind = "return"

\* C11 as stated: each of the methods named (the delete, authorize,
\* approve/suspend/restore, resend, accept, test and rotate methods) returns
\* None on success whatever the response body is.
C11_NoResponseMethodsReturnNone ==
    (RequestSucceeded /\ last.op \in NoResponseMethods)
        => last.outcome = Return(PyNone)

\* C11: each of the methods named other than rotate_webhook_secret returns
\* None on success whatever the response body is; rotate_webhook_secret
\* returns what _request returned, the decoded body or None for an empty one.
C11_StatementMethodsReturnNone ==
    /\ (RequestSucceeded /\ last.op \in StatementMethods)
          => last.outcome = Return(PyNone)
    /\ (RequestSucceeded /\ last.op = "rotate_webhook_secret")
          => last.outcome = last.raw

\* A method of the list got a success response with a JSON body and
\* returned None.
C11_Witness ==
    /\ last.op \in StatementMethods
    /\ SuccessStatus
    /\ last.response.body = BodyJson(Item)
    /\ last.outcome = Return(PyNone)

\* The optional arguments of a method that go into its request body.
OptionalBodyArgs(op) ==
    CASE op = "set_device_attribute" -> {"expiry", "comment"}
      [] op = "create_device_invite" -> {"email"}
      [] op = "create_api_key" -> {"description"}
      [] op = "create_auth_key" -> {"description", "tags"}
      [] op = "create_webhook" -> {"subscriptions"}

\* The JSON body of the request the last call sent.
SentBody == last.sent[1].kwargs["json"]

\* The mapping of the body that holds the key of argument arg: the body
\* itself, or capabilities.devices.create for the tags of an auth key.
Holder(op, arg) ==
    IF op = "create_auth_key" /\ arg = "tags"
    THEN SentBody.fields["capabilities"].fields["devices"].fields["create"]
    ELSE SentBody

\* C12 as stated: in the body sent by set_device_attribute,
\* create_device_invite, create_api_key, create_auth_key and create_webhook,
\* the key of an optional argument is present if and only if the caller
\* passed the argument (anything but the None of an omitted argument).
C12_OptionalKeyIffProvided ==
    last.op \in BodyBuilders =>
        \A a \in OptionalBodyArgs(last.op) :
            (a \in DOMAIN Holder(last.op, a).fields) <=> (last.args[a].t # "None")

\* C13: every call of a public method issues exactly one HTTP request,
\* whether it returns or raises (HTTP error, transport error or decode
\* error): never none, never a second one; and delete_device(id) answered
\* by a 2xx response with an empty body returns None after the one request
\* DELETE {base_url}/device/{id}.
C13_ExactlyOneRequest ==
    /\ last.op \in ClientMethods => Len(last.sent) = 1
    /\ (last.op = "delete_device" /\ SuccessStatus
            /\ last.response.body = BodyEmpty)
          => /\ last.outcome = Return(PyNone)
             /\ last.sent[1].method = "DELETE"
             /\ last.sent[1].url = base_url \o "/device/" \o last.args.device_id.s
             /\ last.sent[1].kwargs = NoKwargs

\* A call failed (here on an error response) having sent its one request.
C13_Witness ==
    /\ last.op = "delete_device"
    /\ ErrorStatus
    /\ last.outcome.kind = "raise"
    /\ Len(last.sent) = 1

\* C14 as stated: list_devices() with its default arguments makes one
\* session request whose arguments are exactly "GET" and the URL
\* {base_url}/tailnet/{tailnet}/devices, with no query parameters and no
\* other keyword argument, and it returns one Device for each element of
\* the response's "devices" list, in order.
C14_ListDevicesDefaultRequest ==
    (last.op = "list_devices" /\ last.args.fields = PyStr("all")) =>
        /\ Len(last.sent) = 1
        /\ last.sent[1].method = "GET"
        /\ last.sent[1].url = base_url \o "/tailnet/" \o tailnet \o "/devices"
        /\ last.sent[1].kwargs = NoKwargs
        /\ (last.outcome.kind = "return" /\ ListBodyHas("devices")) =>
              LET items == last.response.body.value.fields["devices"].items
              IN  last.outcome.value =
                      PyList([i \in DOMAIN items |-> construct("Device", items[i])])

Contains(s, t) ==
    \E i \in 1..(Len(s) - Len(t) + 1) : SubSeq(s, i, i + Len(t) - 1) = t

\* The Python value v holds the string t somewhere: in a string, in an
\* element of a list, or in a key or a value of a dict.
RECURSIVE Mentions(_, _)
Mentions(v, t) ==
    CASE v.t = "str" -> Contains(v.s, t)
      [] v.t = "list" -> \E i \in DOMAIN v.items : Mentions(v.items[i], t)
      [] v.t = "dict" -> \E k \in DOMAIN v.fields :
                            Contains(k, t) \/ Mentions(v.fields[k], t)
      [] OTHER -> FALSE

\* C16: every request a client sends, whatever calls came before and
\* however they ended, carries the API key as the basic-auth user name
\* with an empty password, and the key appears nowhere else: there is no
\* Authorization header among the request's headers (so no bearer token),
\* and no header value, URL, query or body holds the key.
C16_KeyOnlyAsBasicAuthUser ==
    \A i \in DOMAIN last.sent :
        LET q == last.sent[i]
        IN  /\ q.auth = [username |-> api_key, password |-> ""]
            /\ "auth" \notin DOMAIN q.kwargs
            /\ "Authorization" \notin DOMAIN q.headers
            /\ \A h \in DOMAIN q.headers : ~Contains(q.headers[h], api_key)
            /\ ~Contains(q.url, api_key)
            /\ \A k \in DOMAIN q.kwargs \ {"auth"} : ~Mentions(q.kwargs[k], api_key)

\* A third call, after earlier ones, sent a request with extra headers, a
\* body and the key as the basic-auth user.
C16_Witness ==
    /\ calls = 3
    /\ last.op = "update_acl"
    /\ "If-Unmodified-Since" \in DOMAIN last.sent[1].headers
    /\ last.sent[1].headers["If-Unmodified-Since"] = Timestamp.s
    /\ last.sent[1].auth = [username |-> "test-key", password |-> ""]
    /\ last.outcome.kind = "raise"

\* The aliased fields of the decoded model that the mapping gives under
\* their typed name and not under their wire name.
KeyedByTypedName ==
    {f \in Fields(DecodedModel) :
        /\ f.name # f.wire
        /\ f.name \in DOMAIN last.raw.value.fields
        /\ f.wire \notin DOMAIN last.raw.value.fields}

AsConstructed ==
    /\ api_key = "test-key"
    /\ tailnet \in {"-", "test.com"}
    /\ base_url = "https://api.tailscale.com/api/v2"
    /\ session.auth = [username |-> "test-key", password |-> ""]
    /\ session.headers = ("Accept" :> "application/json")
                          @@ ("Content-Type" :> "application/json")

\* The requests of the last call are built from the configuration: the
\* URL starts with base_url, the auth is the session's and the session's
\* default headers are present.
BuiltFromConfiguration ==
    \A i \in DOMAIN last.sent :
        /\ SubSeq(last.sent[i].url, 1, Len(base_url)) = base_url
        /\ last.sent[i].auth = session.auth
        /\ \A h \in {"Accept", "Content-Type"} :
               last.sent[i].headers[h] = "application/json"

\* C18: no call, returning or raising, changes api_key, tailnet, base_url,
\* the session's auth or its default headers (Accept and Content-Type:
\* application/json): they stay as __init__ set them over any sequence of
\* calls, and each request is built from them and the call's arguments.
C18_ConfigurationUnchanged ==
    /\ [](AsConstructed /\ BuiltFromConfiguration)
    /\ [][UNCHANGED <<api_key, tailnet, base_url, session>>]_vars

\* A later call, one that raised, on the configuration of construction.
C18_Witness ==
    /\ calls >= 2
    /\ last.op = "update_acl"
    /\ "If-Unmodified-Since" \in DOMAIN last.sent[1].headers
    /\ last.outcome.kind = "raise"
    /\ tailnet = "test.com"
    /\ session = NewSession("test-key")

\* The methods that build a query.
QueryBuilders ==
    {"list_devices", "get_device", "get_configuration_audit_logs",
     "get_network_logs"}

\* C19 as stated: in the request of list_devices, get_device,
\* get_configuration_audit_logs and get_network_logs no query key has the
\* value None or the empty string (the start of
\* get_configuration_audit_logs included), and a query with no key left
\* is not passed at all.
C19_EmptyQueryValuesDropped ==
    last.op \in QueryBuilders =>
        \A i \in DOMAIN last.sent :
            "params" \in DOMAIN last.sent[i].kwargs =>
                LET params == last.sent[i].kwargs["params"].fields
                IN  /\ DOMAIN params # {}
                    /\ \A k \in DOMAIN params : params[k] \notin {PyNone, PyStr("")}

\* C20 as stated: the ACL that get_acl or update_acl returns always has a
\* list, possibly empty, as its rule list: [] when the response omits
\* "acls", and never None, whatever the successful response carries
\* ("acls": null included).
C20_AclsIsAlwaysAList ==
    (last.op \in {"get_acl", "update_acl"} /\ last.outcome.kind = "return") =>
        /\ last.outcome.value.attrs["acls"].t = "list"
        /\ "acls" \notin DOMAIN last.raw.value.fields =>
              last.outcome.value.attrs["acls"] = EmptyList

====
